---- MODULE Spec2Model ----
(***************************************************************************)
(* Model of generate_icons.py: the module-level driver (create the output  *)
(* directory, read the --active token, render and save one hexagon icon    *)
(* per size, print progress) and create_hexagon_icon (canvas, vertices,    *)
(* polygon rasterisation, save).                                           *)
(*                                                                         *)
(* An image is a sequence of rows, each a sequence of RGBA colours; pixel  *)
(* (x, y) is img[y + 1][x + 1].  The filesystem below "assets/" is a       *)
(* function from file names to file contents.                              *)
(***************************************************************************)
EXTENDS Integers, Sequences, FiniteSets, TLC

VARIABLES
    argv,            \* sys.argv of the process
    dirKind,         \* what "assets/" is on disk: "absent", "dir" or "file"
    fs,              \* files below "assets/": name -> content
    pc,              \* position of the script
    generate_active, \* line 46
    idx,             \* how many entries of sizes the for loop has taken
    size,            \* loop variable, argument of create_hexagon_icon
    filename,        \* lines 51 / 55
    has_halo,        \* argument of create_hexagon_icon
    img,             \* the canvas of the current call
    halo_points,     \* lines 16-22, in millionths of a pixel
    points,          \* lines 25-31, in millionths of a pixel
    stdout,          \* lines printed so far by this run
    run,             \* number of the current invocation
    written,         \* history: names this run has saved
    raised,          \* history: an exception was raised in this run
    dirKind0,        \* history: dirKind when this run started
    fs0,             \* history: fs when this run started
    snap             \* history: <<fs>> at the end of the previous completed run

vars == <<argv, dirKind, fs, pc, generate_active, idx, size, filename, has_halo,
          img, halo_points, points, stdout, run, written, raised, dirKind0, fs0,
          snap>>

\* Number of invocations of the script that are followed (same arguments).
MaxRuns == 2

----------------------------------------------------------------------------
\* Program constants

sizes == <<16, 48, 128>>

green_color == <<0, 128, 0, 255>>

halo_color == <<255, 0, 0, 255>>

transparent == <<0, 0, 0, 0>>

output_dir == "assets/"

ActiveToken == "--active"

----------------------------------------------------------------------------
\* Arithmetic helpers

Min(S) == CHOOSE m \in S : \A k \in S : m <= k

Max(S) == CHOOSE m \in S : \A k \in S : m >= k

\* math.cos / math.sin return doubles; they are kept here in fixed point,
\* Scale units per 1.0, rounded towards minus infinity.
Scale == 1000000

\* int(v) as C's (int) cast does it: truncation towards zero.
Trunc(n) == IF n >= 0 THEN n \div Scale ELSE -((-n) \div Scale)

AngleDeg(i) == 60 * i - 30

\* floor(Scale * math.cos(math.radians(a))) for the six angles used
Cos(a) ==
    CASE a = -30 -> 866025
      [] a = 30  -> 866025
      [] a = 90  -> 0
      [] a = 150 -> -866026
      [] a = 210 -> -866026
      [] a = 270 -> -1

\* floor(Scale * math.sin(math.radians(a))) for the six angles used
Sin(a) ==
    CASE a = -30 -> -500000
      [] a = 30  -> 499999
      [] a = 90  -> 1000000
      [] a = 150 -> 499999
      [] a = 210 -> -500001
      [] a = 270 -> -1000000

----------------------------------------------------------------------------
\* create_hexagon_icon: geometry

\* Image.new('RGBA', (size, size), (0, 0, 0, 0))
NewImage(sz) == [yy \in 1..sz |-> [xx \in 1..sz |-> transparent]]

\* center_x, center_y = size // 2, size // 2
Center(sz) == sz \div 2

\* A radius that is not halved.
RadiusFull(sz) == sz - 1

\* radius = size // 2 - 1
Radius(sz) == sz \div 2 - 1

\* A halo no larger than the hexagon.
HaloRadiusSame(radius) == radius

\* halo_radius = radius + 2
HaloRadius(radius) == radius + 2

\* Vertices without the centre offset.
HexPointsNoOffset(center, radius) ==
    [k \in 1..6 |->
        <<radius * Cos(AngleDeg(k - 1)), radius * Sin(AngleDeg(k - 1))>>]

\* The loop of lines 17-22 / 26-31: six (x, y) pairs, in fixed point.
HexPoints(center, radius) ==
    [k \in 1..6 |->
        <<center * Scale + radius * Cos(AngleDeg(k - 1)),
          center * Scale + radius * Sin(AngleDeg(k - 1))>>]

----------------------------------------------------------------------------
\* ImageDraw.polygon(xy, fill=ink): the vertex coordinates are cast to int,
\* then the polygon is filled row by row: on each row of the canvas the run
\* from the leftmost to the rightmost crossing of the polygon's boundary,
\* each crossing rounded to the nearest pixel, clipped to the canvas.  (With
\* outline equal to fill, or no outline, only the fill is drawn.)

IntPoints(pts) == [k \in DOMAIN pts |-> <<Trunc(pts[k][1]), Trunc(pts[k][2])>>]

Edges(ipts) ==
    {<<ipts[k], ipts[(k % Len(ipts)) + 1]>> : k \in DOMAIN ipts}

EdgeSpans(e, y) ==
    /\ (e[1][2] <= y \/ e[2][2] <= y)
    /\ (e[1][2] >= y \/ e[2][2] >= y)

\* Twice the crossing of edge e with row y, as a fraction <<num, den>>, den > 0
\* (only for an edge that is not horizontal).
Crossing2(e, y) ==
    LET a  == IF e[1][2] < e[2][2] THEN e[1] ELSE e[2]
        b  == IF e[1][2] < e[2][2] THEN e[2] ELSE e[1]
        dy == b[2] - a[2]
        dx == b[1] - a[1]
    IN  <<2 * (a[1] * dy + (y - a[2]) * dx), 2 * dy>>

\* First pixel of the run edge e starts on row y: ceil(crossing - 1/2)
EdgeLo(e, y) ==
    IF e[1][2] = e[2][2]
    THEN IF e[1][1] < e[2][1] THEN e[1][1] ELSE e[2][1]
    ELSE LET c == Crossing2(e, y)
         IN  -((c[2] \div 2 - c[1]) \div c[2])

\* Last pixel of the run edge e ends on row y: floor(crossing + 1/2)
EdgeHi(e, y) ==
    IF e[1][2] = e[2][2]
    THEN IF e[1][1] < e[2][1] THEN e[2][1] ELSE e[1][1]
    ELSE LET c == Crossing2(e, y)
         IN  (c[1] + c[2] \div 2) \div c[2]

\* The filled run of row y: <<first, last>>, or <<1, 0>> when the row is
\* not crossed.
RowRun(ipts, y) ==
    LET S == {e \in Edges(ipts) : EdgeSpans(e, y)}
    IN  IF S = {} THEN <<1, 0>>
        ELSE <<Min({EdgeLo(e, y) : e \in S}), Max({EdgeHi(e, y) : e \in S})>>

\* Is pixel (x, y) painted by a polygon with these vertices?
Covered(pts, x, y) ==
    LET r == RowRun(IntPoints(pts), y) IN r[1] <= x /\ x <= r[2]

\* A paint that leaves already painted pixels alone (drawing underneath).
PolygonUnder(image, pts, ink) ==
    LET ipts == IntPoints(pts)
    IN  [yy \in DOMAIN image |->
            LET r == RowRun(ipts, yy - 1)
            IN  [xx \in DOMAIN image[yy] |->
                    IF r[1] <= xx - 1 /\ xx - 1 <= r[2] /\ image[yy][xx] = transparent
                    THEN ink ELSE image[yy][xx]]]

\* draw.polygon(pts, fill=ink) on the canvas
Polygon(image, pts, ink) ==
    LET ipts == IntPoints(pts)
    IN  [yy \in DOMAIN image |->
            LET r == RowRun(ipts, yy - 1)
            IN  [xx \in DOMAIN image[yy] |->
                    IF r[1] <= xx - 1 /\ xx - 1 <= r[2]
                    THEN ink ELSE image[yy][xx]]]

Pixel(image, x, y) == image[y + 1][x + 1]

----------------------------------------------------------------------------
\* Filesystem and process environment

\* Content of a file that was there before the script ran (not an icon).
OldContent == <<<<<<1, 2, 3, 4>>>>>>

\* Content of a file opened for writing and never written.
EmptyFile == <<>>

ModeSuffix(active) == IF active THEN "_active" ELSE ""

\* A naming that ignores the mode.
FileNameNoMode(sz, active) == output_dir \o "icon" \o ToString(sz) \o ".png"

\* os.path.join(output_dir, f"icon{size}_active.png") / f"icon{size}.png"
FileName(sz, active) ==
    output_dir \o "icon" \o ToString(sz) \o ModeSuffix(active) \o ".png"

AllIconNames == {FileName(sizes[k], a) : k \in DOMAIN sizes, a \in BOOLEAN}

\* Directory listings the script may find in "assets/" when it starts.
InitialListings ==
    { <<>>,
      [f \in AllIconNames |-> OldContent],
      [f \in {output_dir \o "logo.svg", FileName(16, TRUE)} |-> OldContent] }

\* Command lines the script is started with.
CommandLines ==
    { <<"generate_icons.py">>,
      <<"generate_icons.py", ActiveToken>>,
      <<"generate_icons.py", "--verbose", ActiveToken>>,
      <<"generate_icons.py", "--activate">> }

\* '--active' in sys.argv
HasActiveToken(args) == \E k \in DOMAIN args : args[k] = ActiveToken

\* os.mkdir semantics without exist_ok: an existing path is an error.
MakedirsStrict(kind) ==
    CASE kind = "absent" -> {"dir", "error"}
      [] kind = "dir"    -> {"error"}
      [] kind = "file"   -> {"error"}

\* os.makedirs(output_dir, exist_ok=True): the outcomes, given what the path
\* is.  Creating may be refused by the system; an existing directory is
\* accepted as it is; an existing non-directory raises FileExistsError.
Makedirs(kind) ==
    CASE kind = "absent" -> {"dir", "error"}
      [] kind = "dir"    -> {"dir"}
      [] kind = "file"   -> {"error"}

\* Writing in append mode.
WriteFileAppend(files, name, content) ==
    [f \in DOMAIN files \cup {name} |->
        IF f = name
        THEN IF name \in DOMAIN files THEN files[name] \o content ELSE content
        ELSE files[f]]

\* img.save(filename) when it succeeds: the file is created or replaced.
WriteFile(files, name, content) ==
    [f \in DOMAIN files \cup {name} |-> IF f = name THEN content ELSE files[f]]

RemoveFile(files, name) == [f \in DOMAIN files \ {name} |-> files[f]]

\* img.save(filename) when it fails: the open failed and nothing changed, or
\* the file was opened (created or truncated) and the encoder failed; a file
\* the call created itself may be removed again.
FailedSaveResults(files, name) ==
    {files, WriteFile(files, name, EmptyFile)}
        \cup (IF name \in DOMAIN files THEN {} ELSE {RemoveFile(files, name)})

\* An exception handler around the loop body that carries on.
Swallow == "print"

\* Where an exception raised inside the loop leaves the script: nothing
\* catches it, the process ends.
Propagate == "failed"

GeneratedLine(name) == "Generated " \o name

\* A summary that ignores the mode.
SummaryLineNoMode(active) == "All hexagon icons generated successfully."

\* lines 59-62
SummaryLine(active) ==
    IF active
    THEN "All active state hexagon icons with red halo generated successfully."
    ELSE "All hexagon icons generated successfully."

----------------------------------------------------------------------------
\* The script

NoPoints == <<>>

NoImage == <<>>

\* State of a freshly started process (everything but the disk).
ProcessStart ==
    /\ pc = "makedirs"
    /\ generate_active = FALSE
    /\ idx = 0
    /\ size = 0
    /\ filename = ""
    /\ has_halo = FALSE
    /\ img = NoImage
    /\ halo_points = NoPoints
    /\ points = NoPoints
    /\ stdout = <<>>
    /\ written = {}
    /\ raised = FALSE

Init ==
    /\ argv \in CommandLines
    /\ \/ dirKind \in {"absent", "file"} /\ fs = <<>>
       \/ dirKind = "dir" /\ fs \in InitialListings
    /\ ProcessStart
    /\ run = 1
    /\ dirKind0 = dirKind
    /\ fs0 = fs
    /\ snap = <<>>

\* line 43: os.makedirs(output_dir, exist_ok=True)
MakeOutputDir ==
    /\ pc = "makedirs"
    /\ \E r \in Makedirs(dirKind) :
          IF r = "error"
          THEN pc' = "failed" /\ dirKind' = dirKind /\ raised' = TRUE
          ELSE pc' = "flag" /\ dirKind' = r /\ raised' = FALSE
    /\ UNCHANGED <<argv, fs, generate_active, idx, size, filename, has_halo, img,
                   halo_points, points, stdout, run, written, dirKind0, fs0, snap>>

\* line 46: generate_active = '--active' in sys.argv
ReadFlag ==
    /\ pc = "flag"
    /\ generate_active' = HasActiveToken(argv)
    /\ pc' = "loop"
    /\ UNCHANGED raised
    /\ UNCHANGED <<argv, dirKind, fs, idx, size, filename, has_halo, img,
                   halo_points, points, stdout, run, written, dirKind0, fs0, snap>>

\* lines 49-52 / 55-56: take the next size, name the file, enter the call
LoopNext ==
    /\ pc = "loop"
    /\ idx < Len(sizes)
    /\ idx' = idx + 1
    /\ size' = sizes[idx + 1]
    /\ filename' = FileName(sizes[idx + 1], generate_active)
    /\ has_halo' = generate_active
    /\ pc' = "new"
    /\ UNCHANGED raised
    /\ UNCHANGED <<argv, dirKind, fs, generate_active, img, halo_points, points,
                   stdout, run, written, dirKind0, fs0, snap>>

\* line 49: the loop is exhausted
LoopExit ==
    /\ pc = "loop"
    /\ idx = Len(sizes)
    /\ pc' = "summary"
    /\ UNCHANGED raised
    /\ UNCHANGED <<argv, dirKind, fs, generate_active, idx, size, filename,
                   has_halo, img, halo_points, points, stdout, run, written,
                   dirKind0, fs0, snap>>

\* lines 7-14: allocate the canvas; the halo is drawn only if has_halo
NewCanvas ==
    /\ pc = "new"
    /\ img' = NewImage(size)
    /\ halo_points' = NoPoints
    /\ points' = NoPoints
    /\ pc' = IF has_halo THEN "halo" ELSE "primary"
    /\ UNCHANGED raised
    /\ UNCHANGED <<argv, dirKind, fs, generate_active, idx, size, filename,
                   has_halo, stdout, run, written, dirKind0, fs0, snap>>

\* lines 15-23: the halo hexagon
DrawHalo ==
    /\ pc = "halo"
    /\ halo_points' = HexPoints(Center(size), HaloRadius(Radius(size)))
    /\ img' = Polygon(img, halo_points', halo_color)
    /\ pc' = "primary"
    /\ UNCHANGED raised
    /\ UNCHANGED <<argv, dirKind, fs, generate_active, idx, size, filename,
                   has_halo, points, stdout, run, written, dirKind0, fs0, snap>>

\* lines 25-33: the primary hexagon
DrawPrimary ==
    /\ pc = "primary"
    /\ points' = HexPoints(Center(size), Radius(size))
    /\ img' = Polygon(img, points', green_color)
    /\ pc' = "save"
    /\ UNCHANGED raised
    /\ UNCHANGED <<argv, dirKind, fs, generate_active, idx, size, filename,
                   has_halo, halo_points, stdout, run, written, dirKind0, fs0, snap>>

\* line 34: img.save(filename) succeeds
Save ==
    /\ pc = "save"
    /\ dirKind = "dir"
    /\ fs' = WriteFile(fs, filename, img)
    /\ written' = written \cup {filename}
    /\ pc' = "print"
    /\ UNCHANGED raised
    /\ UNCHANGED <<argv, dirKind, generate_active, idx, size, filename, has_halo,
                   img, halo_points, points, stdout, run, dirKind0, fs0, snap>>

\* line 34: img.save(filename) raises
SaveFails ==
    /\ pc = "save"
    /\ fs' \in FailedSaveResults(fs, filename)
    /\ pc' = Propagate
    /\ raised' = TRUE
    /\ UNCHANGED <<argv, dirKind, generate_active, idx, size, filename, has_halo,
                   img, halo_points, points, stdout, run, written, dirKind0, fs0,
                   snap>>

\* line 7: Image.new raises (no memory for the canvas)
RenderFails ==
    /\ pc = "new"
    /\ pc' = Propagate
    /\ raised' = TRUE
    /\ UNCHANGED <<argv, dirKind, fs, generate_active, idx, size, filename,
                   has_halo, img, halo_points, points, stdout, run, written,
                   dirKind0, fs0, snap>>

\* lines 53 / 57: print(f"Generated {filename}")
PrintGenerated ==
    /\ pc = "print"
    /\ stdout' = Append(stdout, GeneratedLine(filename))
    /\ pc' = "loop"
    /\ UNCHANGED raised
    /\ UNCHANGED <<argv, dirKind, fs, generate_active, idx, size, filename,
                   has_halo, img, halo_points, points, run, written, dirKind0,
                   fs0, snap>>

\* lines 59-62: the summary line; the script ends
PrintSummary ==
    /\ pc = "summary"
    /\ stdout' = Append(stdout, SummaryLine(generate_active))
    /\ pc' = "done"
    /\ UNCHANGED raised
    /\ UNCHANGED <<argv, dirKind, fs, generate_active, idx, size, filename,
                   has_halo, img, halo_points, points, run, written, dirKind0,
                   fs0, snap>>

\* The script is started again with the same command line, on the disk the
\* completed run left.
RunAgain ==
    /\ pc = "done"
    /\ run < MaxRuns
    /\ run' = run + 1
    /\ snap' = <<fs>>
    /\ dirKind0' = dirKind
    /\ fs0' = fs
    /\ pc' = "makedirs"
    /\ generate_active' = FALSE
    /\ idx' = 0
    /\ size' = 0
    /\ filename' = ""
    /\ has_halo' = FALSE
    /\ img' = NoImage
    /\ halo_points' = NoPoints
    /\ points' = NoPoints
    /\ stdout' = <<>>
    /\ written' = {}
    /\ raised' = FALSE
    /\ UNCHANGED <<argv, dirKind, fs>>

Next ==
    \/ MakeOutputDir
    \/ ReadFlag
    \/ LoopNext
    \/ LoopExit
    \/ NewCanvas
    \/ DrawHalo
    \/ DrawPrimary
    \/ Save
    \/ SaveFails
    \/ RenderFails
    \/ PrintGenerated
    \/ PrintSummary
    \/ RunAgain

Spec == Init /\ [][Next]_vars

----------------------------------------------------------------------------
\* Vocabulary of the properties

ActiveRun == \E k \in DOMAIN argv : argv[k] = "--active"

NormalNames == {"assets/icon16.png", "assets/icon48.png", "assets/icon128.png"}

ActiveNames ==
    {"assets/icon16_active.png", "assets/icon48_active.png",
     "assets/icon128_active.png"}

ExpectedNames == IF ActiveRun THEN ActiveNames ELSE NormalNames

\* The file of a size in the mode of this run.
IconFile(sz) ==
    IF ActiveRun
    THEN CASE sz = 16  -> "assets/icon16_active.png"
           [] sz = 48  -> "assets/icon48_active.png"
           [] sz = 128 -> "assets/icon128_active.png"
    ELSE CASE sz = 16  -> "assets/icon16.png"
           [] sz = 48  -> "assets/icon48.png"
           [] sz = 128 -> "assets/icon128.png"

IconSizes == {16, 48, 128}

Red == <<255, 0, 0, 255>>

Green == <<0, 128, 0, 255>>

Clear == <<0, 0, 0, 0>>

HasColour(image, c) ==
    \E yy \in DOMAIN image : \E xx \in DOMAIN image[yy] : image[yy][xx] = c

Alpha(c) == c[4]

\* C1: a run that completes has written exactly the three files of its mode
\* and has left every other file, those of the other mode included, as it
\* found it.
C1_ExactlyThreeFiles ==
    pc = "done" =>
        /\ written = ExpectedNames
        /\ DOMAIN fs = DOMAIN fs0 \cup ExpectedNames
        /\ \A f \in DOMAIN fs0 \ ExpectedNames : fs[f] = fs0[f]

C1_Witness ==
    /\ pc = "done"
    /\ ActiveRun
    /\ NormalNames \subseteq DOMAIN fs0
    /\ \A f \in NormalNames : fs[f] = OldContent
    /\ \A f \in ActiveNames : fs[f] # OldContent

\* C2: for every size, the icon of an active run has a pixel that is exactly
\* (255, 0, 0, 255) and the icon of a normal run has none.
C2_RedOnlyInActive ==
    pc = "done" =>
        \A sz \in IconSizes :
            /\ Len(fs[IconFile(sz)]) = sz
            /\ ActiveRun => HasColour(fs[IconFile(sz)], Red)
            /\ ~ActiveRun => ~HasColour(fs[IconFile(sz)], Red)

C2_Witness ==
    /\ pc = "done"
    /\ ActiveRun
    /\ \A sz \in IconSizes : Pixel(fs[IconFile(sz)], sz \div 2, 0) = Red

\* C3: in both modes and for every size the four corner pixels of the icon
\* have alpha 0, although the halo's top and bottom vertices lie outside the
\* canvas.
C3_CornersTransparent ==
    pc = "done" =>
        \A sz \in IconSizes :
            \A x \in {0, sz - 1} : \A y \in {0, sz - 1} :
                Alpha(Pixel(fs[IconFile(sz)], x, y)) = 0

C3_Witness ==
    /\ pc = "done"
    /\ ActiveRun
    /\ halo_points[3][2] > (size - 1) * Scale
    /\ halo_points[6][2] < 0
    /\ \A sz \in IconSizes : Alpha(Pixel(fs[IconFile(sz)], sz - 1, sz - 1)) = 0

\* C4: in both modes and for every size the pixel at (size//2, size//2) of
\* the icon is exactly (0, 128, 0, 255).
C4_CentreIsFill ==
    pc = "done" =>
        \A sz \in IconSizes :
            Pixel(fs[IconFile(sz)], sz \div 2, sz \div 2) = Green

C4_Witness ==
    /\ pc = "done"
    /\ ActiveRun
    /\ Covered(halo_points, size \div 2, size \div 2)
    /\ Pixel(fs[IconFile(128)], 64, 64) = Green

\* C5: a second completed run in the same mode leaves the output directory
\* exactly as the first completed run left it: the same files, each with the
\* same content.
C5_Idempotent ==
    (pc = "done" /\ run >= 2) => snap = <<fs>>

C5_Witness ==
    /\ pc = "done"
    /\ run >= 2
    /\ written = ExpectedNames
    /\ "assets/logo.svg" \in DOMAIN fs
    /\ \A sz \in IconSizes : Len(fs[IconFile(sz)]) = sz

StartedWithDir ==
    {"flag", "loop", "new", "halo", "primary", "save", "print", "summary", "done"}

\* C6: beyond the directory creation step "assets/" is a directory, so it
\* exists at each of the three writes; it comes into being only in that step
\* and only when it was absent; when it was already a directory the step
\* succeeds and changes nothing in it.
C6_DirectoryBeforeWrites ==
    /\ [](pc \in StartedWithDir => dirKind = "dir")
    /\ [][dirKind' # dirKind =>
            pc = "makedirs" /\ dirKind = "absent" /\ dirKind' = "dir"]_vars
    /\ [][(pc = "makedirs" /\ dirKind = "dir") =>
            (pc' = "flag" /\ dirKind' = "dir" /\ fs' = fs)]_vars

C6_Witness ==
    /\ pc = "print"
    /\ idx = 3
    /\ dirKind0 = "absent"
    /\ dirKind = "dir"
    /\ written = ExpectedNames

\* The "Generated" lines of the first n sizes, in the mode of this run.
GeneratedLines(n) ==
    [k \in 1..n |->
        IF ActiveRun
        THEN CASE k = 1 -> "Generated assets/icon16_active.png"
               [] k = 2 -> "Generated assets/icon48_active.png"
               [] k = 3 -> "Generated assets/icon128_active.png"
        ELSE CASE k = 1 -> "Generated assets/icon16.png"
               [] k = 2 -> "Generated assets/icon48.png"
               [] k = 3 -> "Generated assets/icon128.png"]

NamesOfFirst(n) == {IconFile(<<16, 48, 128>>[k]) : k \in 1..n}

\* C7: once rendering or saving raises, the run is over: the script takes no
\* further step (no retry, no later file, no further output), the output
\* holds the lines of the earlier sizes only, and the step that raised left
\* the files saved for earlier sizes as they were.
C7_FailureEndsRun ==
    /\ [](raised =>
            /\ pc = "failed"
            /\ idx >= 1 =>
                  /\ stdout = GeneratedLines(idx - 1)
                  /\ written = NamesOfFirst(idx - 1))
    /\ [][raised => UNCHANGED vars]_vars
    /\ [][(raised' /\ ~raised) =>
            /\ stdout' = stdout
            /\ written' = written
            /\ \A f \in written : f \in DOMAIN fs' /\ fs'[f] = fs[f]]_vars

C7_Witness ==
    /\ pc = "failed"
    /\ raised
    /\ idx = 2
    /\ Len(stdout) = 1
    /\ written = NamesOfFirst(1)
    /\ IconFile(48) \in DOMAIN fs
    /\ fs[IconFile(48)] = EmptyFile
    /\ Len(fs[IconFile(16)]) = 16

\* C8: a completed run has printed exactly four lines, the three "Generated"
\* lines in order and then the summary of its mode; while a file is being
\* rendered and saved exactly the lines of the earlier files are out, and
\* the line of a file is out only once the file is written.
C8_OutputLines ==
    /\ pc = "done" =>
          stdout = GeneratedLines(3) \o
                   << IF ActiveRun
                      THEN "All active state hexagon icons with red halo generated successfully."
                      ELSE "All hexagon icons generated successfully." >>
    /\ pc \in {"new", "halo", "primary", "save"} =>
          stdout = GeneratedLines(idx - 1) /\ written = NamesOfFirst(idx - 1)
    /\ pc = "print" =>
          stdout = GeneratedLines(idx - 1) /\ written = NamesOfFirst(idx)
    /\ pc \in {"loop", "summary"} =>
          stdout = GeneratedLines(idx) /\ written = NamesOfFirst(idx)

C8_Witness ==
    /\ pc = "done"
    /\ ActiveRun
    /\ Len(stdout) = 4
    /\ stdout[4] = "All active state hexagon icons with red halo generated successfully."

\* Sides of the polygon whose two ends have the same y.
HorizontalSides(ipts) ==
    {k \in DOMAIN ipts : ipts[k][2] = ipts[(k % Len(ipts)) + 1][2]}

\* C9: the primary hexagon and the halo hexagon are flat-top: exactly two
\* of their sides are horizontal.
C9_FlatTop ==
    /\ points # NoPoints => Cardinality(HorizontalSides(IntPoints(points))) = 2
    /\ halo_points # NoPoints =>
          Cardinality(HorizontalSides(IntPoints(halo_points))) = 2

\* The colour the finished canvas must have on row y, given the runs of the
\* primary and the halo polygon on that row.
Layered(x, runP, runH) ==
    IF runP[1] <= x /\ x <= runP[2] THEN Green
    ELSE IF runH[1] <= x /\ x <= runH[2] THEN Red
    ELSE Clear

\* C10: with has_halo the halo (radius size//2 + 1, same centre and angles)
\* is on the canvas before the primary hexagon is drawn, and on the finished
\* canvas every pixel of the primary hexagon has the fill colour, red is left
\* exactly on the halo's other pixels, the rest is transparent; without
\* has_halo no halo is drawn.
C10_HaloUnderPrimary ==
    /\ (pc = "primary" /\ has_halo) =>
          /\ points = NoPoints
          /\ halo_points = HexPoints(size \div 2, size \div 2 + 1)
          /\ HasColour(img, Red)
    /\ (pc \in {"primary", "save"} /\ ~has_halo) =>
          halo_points = NoPoints /\ ~HasColour(img, Red)
    /\ pc = "save" =>
          \A yy \in 1..size :
              LET runP == RowRun(IntPoints(points), yy - 1)
                  runH == IF has_halo
                          THEN RowRun(IntPoints(halo_points), yy - 1)
                          ELSE <<1, 0>>
              IN  \A xx \in 1..size :
                      img[yy][xx] = Layered(xx - 1, runP, runH)

C10_Witness ==
    /\ pc = "save"
    /\ has_halo
    /\ size = 128
    /\ Covered(halo_points, 64, 64)
    /\ Covered(points, 64, 64)
    /\ Pixel(img, 64, 64) = Green
    /\ Covered(halo_points, 64, 0)
    /\ ~Covered(points, 64, 0)
    /\ Pixel(img, 64, 0) = Red

====
